---- MODULE Spec2Model ----
(***************************************************************************)
(* The SigV4 request-signing routine of the three PA-API scripts           *)
(*   scripts/paapi_get_item.py          (suffix _GI)                       *)
(*   scripts/paapi_search_items.py      (suffix _SI)                       *)
(*   scripts/investigate_browsenodes.py (suffix _BN)                       *)
(* and the __main__ block that signs one request and posts it.             *)
(*                                                                         *)
(* Python values:                                                          *)
(*   str    a sequence of elements <<"c", cp>> (the code point cp) and     *)
(*          <<"hex", d>> (the 64 lowercase hex digits of the digest d);    *)
(*   bytes  a sequence of elements <<"b", n>> (the byte n), <<"hex", d>>   *)
(*          (the 64 ASCII bytes of the hex digits of d) and <<"raw", d>>   *)
(*          (the 32 raw bytes of d);                                       *)
(*   None   the one-element sequence << <<"None", 0>> >>.                  *)
(* SHA-256 and HMAC-SHA256 are uninterpreted: a digest is the term         *)
(* <<"sha256", data>> or <<"hmac", key, msg>>.                             *)
(***************************************************************************)
EXTENDS Integers, Sequences, FiniteSets, TLC

VARIABLES
    script,        \* which of the three scripts runs (or is imported)
    now,           \* the wall clock, in seconds after BaseInstant
    pc,            \* position of __main__
    env,           \* os.environ: AMAZON_ACCESS_KEY, AMAZON_SECRET_KEY, AMAZON_PARTNER_TAG
    argv,          \* the positional command-line argument (asin or keywords)
    payload_main,  \* the local `payload` of __main__
    call,          \* the latest invocation of get_signed_headers: arguments, clock, outcome
    again,         \* a repeated invocation with the arguments of `call`
    keycall,       \* the latest direct invocation of get_signature_key
    sent,          \* the requests handed to requests.post, in order
    files          \* the output files written

vars == <<script, now, pc, env, argv, payload_main, call, again, keycall, sent, files>>

----------------------------------------------------------------------------
(* Bounds *)

MaxLen == 1        \* longest string drawn as an argument of a direct call
MaxTick == 1       \* the clock runs from BaseInstant to BaseInstant + MaxTick seconds
MaxElapsed == 1    \* seconds that may pass between two reads of the clock inside one call

----------------------------------------------------------------------------
(* str and bytes *)

Lit(codes) == [i \in 1..Len(codes) |-> <<"c", codes[i]>>]

None == << <<"None", 0>> >>

IsNone(v) == v = None

NL == Lit(<<10>>)

IsSurrogate(cp) == cp >= 55296 /\ cp <= 57343

\* the UTF-8 bytes of one code point (str.encode('utf-8'))
Utf8(cp) ==
    IF cp < 128 THEN << <<"b", cp>> >>
    ELSE IF cp < 2048 THEN << <<"b", 192 + (cp \div 64)>>, <<"b", 128 + (cp % 64)>> >>
    ELSE IF cp < 65536 THEN << <<"b", 224 + (cp \div 4096)>>,
                               <<"b", 128 + ((cp \div 64) % 64)>>,
                               <<"b", 128 + (cp % 64)>> >>
    ELSE << <<"b", 240 + (cp \div 262144)>>,
            <<"b", 128 + ((cp \div 4096) % 64)>>,
            <<"b", 128 + ((cp \div 64) % 64)>>,
            <<"b", 128 + (cp % 64)>> >>

\* str.encode('utf-8') raises UnicodeEncodeError on a lone surrogate
Encodable(s) == \A i \in 1..Len(s) : s[i][1] = "c" => ~IsSurrogate(s[i][2])

\* the bytes of s: each code point as its UTF-8 bytes, the hex digits as ASCII bytes
\* (computed by halving, so that the recursion stays shallow on long strings)
RECURSIVE Encode(_)
Encode(s) ==
    IF s = <<>> THEN <<>>
    ELSE IF Len(s) = 1 THEN (IF s[1][1] = "c" THEN Utf8(s[1][2]) ELSE s)
    ELSE Encode(SubSeq(s, 1, Len(s) \div 2)) \o Encode(SubSeq(s, Len(s) \div 2 + 1, Len(s)))

\* hashlib.sha256(data), hmac.new(key, msg, hashlib.sha256), .hexdigest(), .digest()
Sha256(data) == <<"sha256", data>>

HmacNew(key, msg) == <<"hmac", key, msg>>

HexDigest(d) == << <<"hex", d>> >>

Digest(d) == << <<"raw", d>> >>

----------------------------------------------------------------------------
(* datetime.datetime.utcnow() and strftime *)

BaseInstant == [Y |-> 2024, m |-> 12, d |-> 31, H |-> 23, M |-> 59, S |-> 59]

IsLeap(y) == (y % 4 = 0 /\ y % 100 # 0) \/ y % 400 = 0

DaysInMonth(y, m) ==
    IF m = 2 THEN (IF IsLeap(y) THEN 29 ELSE 28)
    ELSE IF m \in {4, 6, 9, 11} THEN 30 ELSE 31

\* the instant n seconds after BaseInstant (n < 86400)
UtcNow(n) ==
    LET sod  == BaseInstant.H * 3600 + BaseInstant.M * 60 + BaseInstant.S + n
        roll == sod >= 86400
        s    == sod % 86400
        dd   == IF roll THEN BaseInstant.d + 1 ELSE BaseInstant.d
        mroll == dd > DaysInMonth(BaseInstant.Y, BaseInstant.m)
        mm   == IF mroll THEN BaseInstant.m + 1 ELSE BaseInstant.m
        yroll == mm > 12
    IN  [Y |-> IF yroll THEN BaseInstant.Y + 1 ELSE BaseInstant.Y,
         m |-> IF yroll THEN 1 ELSE mm,
         d |-> IF mroll THEN 1 ELSE dd,
         H |-> s \div 3600, M |-> (s \div 60) % 60, S |-> s % 60]

\* n as w zero-padded decimal digits
RECURSIVE Pad(_, _)
Pad(n, w) == IF w = 0 THEN <<>> ELSE Pad(n \div 10, w - 1) \o << <<"c", 48 + (n % 10)>> >>

\* t.strftime('%Y%m%dT%H%M%SZ')
StrftimeFull(t) ==
    Pad(t.Y, 4) \o Pad(t.m, 2) \o Pad(t.d, 2) \o Lit(<<84>>)
        \o Pad(t.H, 2) \o Pad(t.M, 2) \o Pad(t.S, 2) \o Lit(<<90>>)

\* t.strftime('%Y%m%d')
StrftimeDate(t) == Pad(t.Y, 4) \o Pad(t.m, 2) \o Pad(t.d, 2)

----------------------------------------------------------------------------
(* the outcome of a Python call: a returned value or a raised exception *)

Return(v) == [raise |-> "", value |-> v]

Raise(e) == [raise |-> e, value |-> <<>>]

Raised(r) == r.raise # ""

----------------------------------------------------------------------------
(* scripts/paapi_get_item.py *)

\* hmac.new(msg.encode('utf-8'), key, hashlib.sha256).digest(): key and message exchanged
sign_GI_Exchanged(key, msg) ==
    IF ~Encodable(msg) THEN Raise("UnicodeEncodeError")
    ELSE Return(Digest(HmacNew(Encode(msg), key)))

\* hmac.new(key, msg.encode('utf-8'), hashlib.sha256).digest()
sign_GI(key, msg) ==
    IF ~Encodable(msg) THEN Raise("UnicodeEncodeError")
    ELSE Return(Digest(HmacNew(key, Encode(msg))))

get_signature_key_GI(key, date_stamp, region_name, service_name) ==
    IF IsNone(key) THEN Raise("TypeError")                          \* 'AWS4' + None
    ELSE IF ~Encodable(Lit(<<65, 87, 83, 52>>) \o key) THEN Raise("UnicodeEncodeError")
    ELSE
    LET k_date == sign_GI(Encode(Lit(<<65, 87, 83, 52>>) \o key), date_stamp)   \* 'AWS4' + key
    IN  IF Raised(k_date) THEN k_date ELSE
    LET k_region == sign_GI(k_date.value, region_name)
    IN  IF Raised(k_region) THEN k_region ELSE
    LET k_service == sign_GI(k_region.value, service_name)
    IN  IF Raised(k_service) THEN k_service ELSE
    LET k_signing == sign_GI(k_service.value,
                           Lit(<<97, 119, 115, 52, 95, 114, 101, 113, 117, 101, 115, 116>>))  \* 'aws4_request'
    IN  k_signing

\* the statements of get_signed_headers, one definition per assignment

method_GI == Lit(<<80, 79, 83, 84>>)                                            \* 'POST'

canonical_uri_GI == Lit(<<47, 112, 97, 97, 112, 105, 53, 47, 103, 101, 116, 105, 116, 101, 109, 115>>)   \* '/paapi5/getitems'

\* the instant of a later reading of the clock
t_GI_Later(clock) == UtcNow(clock[Len(clock)])

\* clock[k] is the value the k-th datetime.datetime.utcnow() of the call returns
t_GI(clock) == UtcNow(clock[1])

amz_date_GI(t) == StrftimeFull(t)

\* a date stamp formatted '%Y%d%m'
date_stamp_GI_DayMonth(t) == Pad(t.Y, 4) \o Pad(t.d, 2) \o Pad(t.m, 2)

date_stamp_GI(t) == StrftimeDate(t)

canonical_querystring_GI == Lit(<<>>)

canonical_headers_GI(host, amz_date) ==
    Lit(<<104, 111, 115, 116, 58>>) \o host \o NL                                \* 'host:'
    \o Lit(<<120, 45, 97, 109, 122, 45, 100, 97, 116, 101, 58>>) \o amz_date \o NL   \* 'x-amz-date:'
    \* 'x-amz-target:com.amazon.paapi5.v1.ProductAdvertisingAPIv1.GetItems\n'
    \o Lit(<<120, 45, 97, 109, 122, 45, 116, 97, 114, 103, 101, 116, 58,
             99, 111, 109, 46, 97, 109, 97, 122, 111, 110, 46, 112, 97, 97, 112, 105, 53, 46, 118,
             49, 46, 80, 114, 111, 100, 117, 99, 116, 65, 100, 118, 101, 114, 116, 105, 115, 105,
             110, 103, 65, 80, 73, 118, 49, 46, 71, 101, 116, 73, 116, 101, 109, 115, 10>>)

\* 'host;x-amz-date;x-amz-target'
signed_headers_GI ==
    Lit(<<104, 111, 115, 116, 59, 120, 45, 97, 109, 122, 45, 100, 97, 116, 101, 59,
          120, 45, 97, 109, 122, 45, 116, 97, 114, 103, 101, 116>>)

payload_hash_GI(payload) == HexDigest(Sha256(Encode(payload)))

\* the signed-headers list put before the header block
canonical_request_GI_Swapped(method, canonical_uri, canonical_querystring, canonical_headers, signed_headers, payload_hash) ==
    method \o NL \o canonical_uri \o NL \o canonical_querystring \o NL
    \o signed_headers \o NL \o canonical_headers \o NL \o payload_hash

canonical_request_GI(method, canonical_uri, canonical_querystring, canonical_headers, signed_headers, payload_hash) ==
    method \o NL \o canonical_uri \o NL \o canonical_querystring \o NL
    \o canonical_headers \o NL \o signed_headers \o NL \o payload_hash

\* 'AWS4-HMAC-SHA256'
algorithm_GI == Lit(<<65, 87, 83, 52, 45, 72, 77, 65, 67, 45, 83, 72, 65, 50, 53, 54>>)

\* service before region
credential_scope_GI_ServiceFirst(date_stamp, region, service) ==
    date_stamp \o Lit(<<47>>) \o service \o Lit(<<47>>) \o region \o Lit(<<47>>)
    \o Lit(<<97, 119, 115, 52, 95, 114, 101, 113, 117, 101, 115, 116>>)

credential_scope_GI(date_stamp, region, service) ==
    date_stamp \o Lit(<<47>>) \o region \o Lit(<<47>>) \o service \o Lit(<<47>>)
    \o Lit(<<97, 119, 115, 52, 95, 114, 101, 113, 117, 101, 115, 116>>)          \* 'aws4_request'

string_to_sign_GI(algorithm, amz_date, credential_scope, canonical_request) ==
    algorithm \o NL \o amz_date \o NL \o credential_scope \o NL
    \o HexDigest(Sha256(Encode(canonical_request)))

signature_GI(signing_key, string_to_sign) ==
    HexDigest(HmacNew(signing_key, Encode(string_to_sign)))

authorization_header_GI(algorithm, access_key, credential_scope, signed_headers, signature) ==
    algorithm \o Lit(<<32>>)
    \o Lit(<<67, 114, 101, 100, 101, 110, 116, 105, 97, 108, 61>>)                \* 'Credential='
    \o access_key \o Lit(<<47>>) \o credential_scope \o Lit(<<44, 32>>)
    \o Lit(<<83, 105, 103, 110, 101, 100, 72, 101, 97, 100, 101, 114, 115, 61>>) \* 'SignedHeaders='
    \o signed_headers \o Lit(<<44, 32>>)
    \o Lit(<<83, 105, 103, 110, 97, 116, 117, 114, 101, 61>>) \o signature       \* 'Signature='

headers_GI(host, amz_date, authorization_header) ==
    ("host" :> host) @@ ("x-amz-date" :> amz_date)
    \* 'com.amazon.paapi5.v1.ProductAdvertisingAPIv1.GetItems'
    @@ ("x-amz-target" :> Lit(<<99, 111, 109, 46, 97, 109, 97, 122, 111, 110, 46, 112, 97, 97,
                                  112, 105, 53, 46, 118, 49, 46, 80, 114, 111, 100, 117, 99, 116,
                                  65, 100, 118, 101, 114, 116, 105, 115, 105, 110, 103, 65, 80, 73,
                                  118, 49, 46, 71, 101, 116, 73, 116, 101, 109, 115>>))
    \* 'application/json; charset=utf-8'
    @@ ("content-type" :> Lit(<<97, 112, 112, 108, 105, 99, 97, 116, 105, 111, 110, 47, 106, 115, 111,
                                110, 59, 32, 99, 104, 97, 114, 115, 101, 116, 61, 117, 116, 102, 45, 56>>))
    @@ ("authorization" :> authorization_header)
    @@ ("content-encoding" :> Lit(<<97, 109, 122, 45, 49, 46, 48>>))              \* 'amz-1.0'

get_signed_headers_GI(access_key, secret_key, region, service, host, payload, clock) ==
    LET method == method_GI
        canonical_uri == canonical_uri_GI
        t == t_GI(clock)
        amz_date == amz_date_GI(t)
        date_stamp == date_stamp_GI(t)
        canonical_querystring == canonical_querystring_GI
        canonical_headers == canonical_headers_GI(host, amz_date)
        signed_headers == signed_headers_GI
        payload_hash == payload_hash_GI(payload)
        canonical_request == canonical_request_GI(method, canonical_uri, canonical_querystring,
                                                  canonical_headers, signed_headers, payload_hash)
        algorithm == algorithm_GI
        credential_scope == credential_scope_GI(date_stamp, region, service)
        string_to_sign == string_to_sign_GI(algorithm, amz_date, credential_scope, canonical_request)
        signing_key == get_signature_key_GI(secret_key, date_stamp, region, service)
        signature == signature_GI(signing_key.value, string_to_sign)
        authorization_header == authorization_header_GI(algorithm, access_key, credential_scope,
                                                        signed_headers, signature)
        headers == headers_GI(host, amz_date, authorization_header)
    IN  IF ~Encodable(payload) THEN Raise("UnicodeEncodeError")            \* payload.encode('utf-8')
        ELSE IF ~Encodable(canonical_request) THEN Raise("UnicodeEncodeError")
        ELSE IF Raised(signing_key) THEN signing_key
        ELSE IF ~Encodable(string_to_sign) THEN Raise("UnicodeEncodeError")
        ELSE IF IsNone(access_key) THEN Raise("TypeError")                 \* 'Credential=' + None
        ELSE Return([reads |-> 1, t |-> t, amz_date |-> amz_date, date_stamp |-> date_stamp,
                     method |-> method, canonical_uri |-> canonical_uri,
                     canonical_querystring |-> canonical_querystring,
                     canonical_headers |-> canonical_headers, signed_headers |-> signed_headers,
                     payload_hash |-> payload_hash, canonical_request |-> canonical_request,
                     algorithm |-> algorithm, credential_scope |-> credential_scope,
                     string_to_sign |-> string_to_sign, signing_key |-> signing_key.value,
                     signature |-> signature, authorization_header |-> authorization_header,
                     headers |-> headers])

----------------------------------------------------------------------------
(* scripts/paapi_search_items.py *)

\* hmac.new(key, msg.encode('utf-8'), hashlib.sha256).digest()
sign_SI(key, msg) ==
    IF ~Encodable(msg) THEN Raise("UnicodeEncodeError")
    ELSE Return(Digest(HmacNew(key, Encode(msg))))

get_signature_key_SI(key, date_stamp, region_name, service_name) ==
    IF IsNone(key) THEN Raise("TypeError")                          \* 'AWS4' + None
    ELSE IF ~Encodable(Lit(<<65, 87, 83, 52>>) \o key) THEN Raise("UnicodeEncodeError")
    ELSE
    LET k_date == sign_SI(Encode(Lit(<<65, 87, 83, 52>>) \o key), date_stamp)   \* 'AWS4' + key
    IN  IF Raised(k_date) THEN k_date ELSE
    LET k_region == sign_SI(k_date.value, region_name)
    IN  IF Raised(k_region) THEN k_region ELSE
    LET k_service == sign_SI(k_region.value, service_name)
    IN  IF Raised(k_service) THEN k_service ELSE
    LET k_signing == sign_SI(k_service.value,
                           Lit(<<97, 119, 115, 52, 95, 114, 101, 113, 117, 101, 115, 116>>))  \* 'aws4_request'
    IN  k_signing

\* the statements of get_signed_headers, one definition per assignment

method_SI == Lit(<<80, 79, 83, 84>>)                                            \* 'POST'

canonical_uri_SI == Lit(<<47, 112, 97, 97, 112, 105, 53, 47, 115, 101, 97, 114, 99, 104, 105, 116, 101, 109, 115>>)   \* '/paapi5/searchitems'

\* clock[k] is the value the k-th datetime.datetime.utcnow() of the call returns
t_SI(clock) == UtcNow(clock[1])

amz_date_SI(t) == StrftimeFull(t)

date_stamp_SI(t) == StrftimeDate(t)

canonical_querystring_SI == Lit(<<>>)

canonical_headers_SI(host, amz_date) ==
    Lit(<<104, 111, 115, 116, 58>>) \o host \o NL                                \* 'host:'
    \o Lit(<<120, 45, 97, 109, 122, 45, 100, 97, 116, 101, 58>>) \o amz_date \o NL   \* 'x-amz-date:'
    \* 'x-amz-target:com.amazon.paapi5.v1.ProductAdvertisingAPIv1.SearchItems\n'
    \o Lit(<<120, 45, 97, 109, 122, 45, 116, 97, 114, 103, 101, 116, 58,
             99, 111, 109, 46, 97, 109, 97, 122, 111, 110, 46, 112, 97, 97, 112, 105, 53, 46, 118,
             49, 46, 80, 114, 111, 100, 117, 99, 116, 65, 100, 118, 101, 114, 116, 105, 115, 105,
             110, 103, 65, 80, 73, 118, 49, 46, 83, 101, 97, 114, 99, 104, 73, 116, 101, 109, 115, 10>>)

\* 'host;x-amz-target;x-amz-date'
signed_headers_SI_Reordered ==
    Lit(<<104, 111, 115, 116, 59, 120, 45, 97, 109, 122, 45, 116, 97, 114, 103, 101, 116, 59,
          120, 45, 97, 109, 122, 45, 100, 97, 116, 101>>)

\* 'host;x-amz-date;x-amz-target'
signed_headers_SI ==
    Lit(<<104, 111, 115, 116, 59, 120, 45, 97, 109, 122, 45, 100, 97, 116, 101, 59,
          120, 45, 97, 109, 122, 45, 116, 97, 114, 103, 101, 116>>)

payload_hash_SI(payload) == HexDigest(Sha256(Encode(payload)))

canonical_request_SI(method, canonical_uri, canonical_querystring, canonical_headers, signed_headers, payload_hash) ==
    method \o NL \o canonical_uri \o NL \o canonical_querystring \o NL
    \o canonical_headers \o NL \o signed_headers \o NL \o payload_hash

\* 'AWS4-HMAC-SHA256'
algorithm_SI == Lit(<<65, 87, 83, 52, 45, 72, 77, 65, 67, 45, 83, 72, 65, 50, 53, 54>>)

credential_scope_SI(date_stamp, region, service) ==
    date_stamp \o Lit(<<47>>) \o region \o Lit(<<47>>) \o service \o Lit(<<47>>)
    \o Lit(<<97, 119, 115, 52, 95, 114, 101, 113, 117, 101, 115, 116>>)          \* 'aws4_request'

string_to_sign_SI(algorithm, amz_date, credential_scope, canonical_request) ==
    algorithm \o NL \o amz_date \o NL \o credential_scope \o NL
    \o HexDigest(Sha256(Encode(canonical_request)))

signature_SI(signing_key, string_to_sign) ==
    HexDigest(HmacNew(signing_key, Encode(string_to_sign)))

authorization_header_SI(algorithm, access_key, credential_scope, signed_headers, signature) ==
    algorithm \o Lit(<<32>>)
    \o Lit(<<67, 114, 101, 100, 101, 110, 116, 105, 97, 108, 61>>)                \* 'Credential='
    \o access_key \o Lit(<<47>>) \o credential_scope \o Lit(<<44, 32>>)
    \o Lit(<<83, 105, 103, 110, 101, 100, 72, 101, 97, 100, 101, 114, 115, 61>>) \* 'SignedHeaders='
    \o signed_headers \o Lit(<<44, 32>>)
    \o Lit(<<83, 105, 103, 110, 97, 116, 117, 114, 101, 61>>) \o signature       \* 'Signature='

headers_SI(host, amz_date, authorization_header) ==
    ("host" :> host) @@ ("x-amz-date" :> amz_date)
    \* 'com.amazon.paapi5.v1.ProductAdvertisingAPIv1.SearchItems'
    @@ ("x-amz-target" :> Lit(<<99, 111, 109, 46, 97, 109, 97, 122, 111, 110, 46, 112, 97, 97,
                                  112, 105, 53, 46, 118, 49, 46, 80, 114, 111, 100, 117, 99, 116,
                                  65, 100, 118, 101, 114, 116, 105, 115, 105, 110, 103, 65, 80, 73,
                                  118, 49, 46, 83, 101, 97, 114, 99, 104, 73, 116, 101, 109, 115>>))
    \* 'application/json; charset=utf-8'
    @@ ("content-type" :> Lit(<<97, 112, 112, 108, 105, 99, 97, 116, 105, 111, 110, 47, 106, 115, 111,
                                110, 59, 32, 99, 104, 97, 114, 115, 101, 116, 61, 117, 116, 102, 45, 56>>))
    @@ ("authorization" :> authorization_header)
    @@ ("content-encoding" :> Lit(<<97, 109, 122, 45, 49, 46, 48>>))              \* 'amz-1.0'

get_signed_headers_SI(access_key, secret_key, region, service, host, payload, clock) ==
    LET method == method_SI
        canonical_uri == canonical_uri_SI
        t == t_SI(clock)
        amz_date == amz_date_SI(t)
        date_stamp == date_stamp_SI(t)
        canonical_querystring == canonical_querystring_SI
        canonical_headers == canonical_headers_SI(host, amz_date)
        signed_headers == signed_headers_SI
        payload_hash == payload_hash_SI(payload)
        canonical_request == canonical_request_SI(method, canonical_uri, canonical_querystring,
                                                  canonical_headers, signed_headers, payload_hash)
        algorithm == algorithm_SI
        credential_scope == credential_scope_SI(date_stamp, region, service)
        string_to_sign == string_to_sign_SI(algorithm, amz_date, credential_scope, canonical_request)
        signing_key == get_signature_key_SI(secret_key, date_stamp, region, service)
        signature == signature_SI(signing_key.value, string_to_sign)
        authorization_header == authorization_header_SI(algorithm, access_key, credential_scope,
                                                        signed_headers, signature)
        headers == headers_SI(host, amz_date, authorization_header)
    IN  IF ~Encodable(payload) THEN Raise("UnicodeEncodeError")            \* payload.encode('utf-8')
        ELSE IF ~Encodable(canonical_request) THEN Raise("UnicodeEncodeError")
        ELSE IF Raised(signing_key) THEN signing_key
        ELSE IF ~Encodable(string_to_sign) THEN Raise("UnicodeEncodeError")
        ELSE IF IsNone(access_key) THEN Raise("TypeError")                 \* 'Credential=' + None
        ELSE Return([reads |-> 1, t |-> t, amz_date |-> amz_date, date_stamp |-> date_stamp,
                     method |-> method, canonical_uri |-> canonical_uri,
                     canonical_querystring |-> canonical_querystring,
                     canonical_headers |-> canonical_headers, signed_headers |-> signed_headers,
                     payload_hash |-> payload_hash, canonical_request |-> canonical_request,
                     algorithm |-> algorithm, credential_scope |-> credential_scope,
                     string_to_sign |-> string_to_sign, signing_key |-> signing_key.value,
                     signature |-> signature, authorization_header |-> authorization_header,
                     headers |-> headers])

----------------------------------------------------------------------------
(* scripts/investigate_browsenodes.py *)

\* hmac.new(key, msg.encode('utf-8'), hashlib.sha256).digest()
sign_BN(key, msg) ==
    IF ~Encodable(msg) THEN Raise("UnicodeEncodeError")
    ELSE Return(Digest(HmacNew(key, Encode(msg))))

get_signature_key_BN(key, date_stamp, region_name, service_name) ==
    IF IsNone(key) THEN Raise("TypeError")                          \* 'AWS4' + None
    ELSE IF ~Encodable(Lit(<<65, 87, 83, 52>>) \o key) THEN Raise("UnicodeEncodeError")
    ELSE
    LET k_date == sign_BN(Encode(Lit(<<65, 87, 83, 52>>) \o key), date_stamp)   \* 'AWS4' + key
    IN  IF Raised(k_date) THEN k_date ELSE
    LET k_region == sign_BN(k_date.value, region_name)
    IN  IF Raised(k_region) THEN k_region ELSE
    LET k_service == sign_BN(k_region.value, service_name)
    IN  IF Raised(k_service) THEN k_service ELSE
    LET k_signing == sign_BN(k_service.value,
                           Lit(<<97, 119, 115, 52, 95, 114, 101, 113, 117, 101, 115, 116>>))  \* 'aws4_request'
    IN  k_signing

\* the statements of get_signed_headers, one definition per assignment

method_BN == Lit(<<80, 79, 83, 84>>)                                            \* 'POST'

canonical_uri_BN == Lit(<<47, 112, 97, 97, 112, 105, 53, 47, 103, 101, 116, 105, 116, 101, 109, 115>>)   \* '/paapi5/getitems'

\* clock[k] is the value the k-th datetime.datetime.utcnow() of the call returns
t_BN(clock) == UtcNow(clock[1])

amz_date_BN(t) == StrftimeFull(t)

date_stamp_BN(t) == StrftimeDate(t)

canonical_querystring_BN == Lit(<<>>)

canonical_headers_BN(host, amz_date) ==
    Lit(<<104, 111, 115, 116, 58>>) \o host \o NL                                \* 'host:'
    \o Lit(<<120, 45, 97, 109, 122, 45, 100, 97, 116, 101, 58>>) \o amz_date \o NL   \* 'x-amz-date:'
    \* 'x-amz-target:com.amazon.paapi5.v1.ProductAdvertisingAPIv1.GetItems\n'
    \o Lit(<<120, 45, 97, 109, 122, 45, 116, 97, 114, 103, 101, 116, 58,
             99, 111, 109, 46, 97, 109, 97, 122, 111, 110, 46, 112, 97, 97, 112, 105, 53, 46, 118,
             49, 46, 80, 114, 111, 100, 117, 99, 116, 65, 100, 118, 101, 114, 116, 105, 115, 105,
             110, 103, 65, 80, 73, 118, 49, 46, 71, 101, 116, 73, 116, 101, 109, 115, 10>>)

\* 'host;x-amz-date;x-amz-target'
signed_headers_BN ==
    Lit(<<104, 111, 115, 116, 59, 120, 45, 97, 109, 122, 45, 100, 97, 116, 101, 59,
          120, 45, 97, 109, 122, 45, 116, 97, 114, 103, 101, 116>>)

payload_hash_BN(payload) == HexDigest(Sha256(Encode(payload)))

canonical_request_BN(method, canonical_uri, canonical_querystring, canonical_headers, signed_headers, payload_hash) ==
    method \o NL \o canonical_uri \o NL \o canonical_querystring \o NL
    \o canonical_headers \o NL \o signed_headers \o NL \o payload_hash

\* 'AWS4-HMAC-SHA256'
algorithm_BN == Lit(<<65, 87, 83, 52, 45, 72, 77, 65, 67, 45, 83, 72, 65, 50, 53, 54>>)

credential_scope_BN(date_stamp, region, service) ==
    date_stamp \o Lit(<<47>>) \o region \o Lit(<<47>>) \o service \o Lit(<<47>>)
    \o Lit(<<97, 119, 115, 52, 95, 114, 101, 113, 117, 101, 115, 116>>)          \* 'aws4_request'

string_to_sign_BN(algorithm, amz_date, credential_scope, canonical_request) ==
    algorithm \o NL \o amz_date \o NL \o credential_scope \o NL
    \o HexDigest(Sha256(Encode(canonical_request)))

\* the canonical bytes signed as the key and the signing key as the message
signature_BN_Exchanged(signing_key, string_to_sign) ==
    HexDigest(HmacNew(Encode(string_to_sign), signing_key))

signature_BN(signing_key, string_to_sign) ==
    HexDigest(HmacNew(signing_key, Encode(string_to_sign)))

authorization_header_BN(algorithm, access_key, credential_scope, signed_headers, signature) ==
    algorithm \o Lit(<<32>>)
    \o Lit(<<67, 114, 101, 100, 101, 110, 116, 105, 97, 108, 61>>)                \* 'Credential='
    \o access_key \o Lit(<<47>>) \o credential_scope \o Lit(<<44, 32>>)
    \o Lit(<<83, 105, 103, 110, 101, 100, 72, 101, 97, 100, 101, 114, 115, 61>>) \* 'SignedHeaders='
    \o signed_headers \o Lit(<<44, 32>>)
    \o Lit(<<83, 105, 103, 110, 97, 116, 117, 114, 101, 61>>) \o signature       \* 'Signature='

headers_BN(host, amz_date, authorization_header) ==
    ("host" :> host) @@ ("x-amz-date" :> amz_date)
    \* 'com.amazon.paapi5.v1.ProductAdvertisingAPIv1.GetItems'
    @@ ("x-amz-target" :> Lit(<<99, 111, 109, 46, 97, 109, 97, 122, 111, 110, 46, 112, 97, 97,
                                  112, 105, 53, 46, 118, 49, 46, 80, 114, 111, 100, 117, 99, 116,
                                  65, 100, 118, 101, 114, 116, 105, 115, 105, 110, 103, 65, 80, 73,
                                  118, 49, 46, 71, 101, 116, 73, 116, 101, 109, 115>>))
    \* 'application/json; charset=utf-8'
    @@ ("content-type" :> Lit(<<97, 112, 112, 108, 105, 99, 97, 116, 105, 111, 110, 47, 106, 115, 111,
                                110, 59, 32, 99, 104, 97, 114, 115, 101, 116, 61, 117, 116, 102, 45, 56>>))
    @@ ("authorization" :> authorization_header)
    @@ ("content-encoding" :> Lit(<<97, 109, 122, 45, 49, 46, 48>>))              \* 'amz-1.0'

get_signed_headers_BN(access_key, secret_key, region, service, host, payload, clock) ==
    LET method == method_BN
        canonical_uri == canonical_uri_BN
        t == t_BN(clock)
        amz_date == amz_date_BN(t)
        date_stamp == date_stamp_BN(t)
        canonical_querystring == canonical_querystring_BN
        canonical_headers == canonical_headers_BN(host, amz_date)
        signed_headers == signed_headers_BN
        payload_hash == payload_hash_BN(payload)
        canonical_request == canonical_request_BN(method, canonical_uri, canonical_querystring,
                                                  canonical_headers, signed_headers, payload_hash)
        algorithm == algorithm_BN
        credential_scope == credential_scope_BN(date_stamp, region, service)
        string_to_sign == string_to_sign_BN(algorithm, amz_date, credential_scope, canonical_request)
        signing_key == get_signature_key_BN(secret_key, date_stamp, region, service)
        signature == signature_BN(signing_key.value, string_to_sign)
        authorization_header == authorization_header_BN(algorithm, access_key, credential_scope,
                                                        signed_headers, signature)
        headers == headers_BN(host, amz_date, authorization_header)
    IN  IF ~Encodable(payload) THEN Raise("UnicodeEncodeError")            \* payload.encode('utf-8')
        ELSE IF ~Encodable(canonical_request) THEN Raise("UnicodeEncodeError")
        ELSE IF Raised(signing_key) THEN signing_key
        ELSE IF ~Encodable(string_to_sign) THEN Raise("UnicodeEncodeError")
        ELSE IF IsNone(access_key) THEN Raise("TypeError")                 \* 'Credential=' + None
        ELSE Return([reads |-> 1, t |-> t, amz_date |-> amz_date, date_stamp |-> date_stamp,
                     method |-> method, canonical_uri |-> canonical_uri,
                     canonical_querystring |-> canonical_querystring,
                     canonical_headers |-> canonical_headers, signed_headers |-> signed_headers,
                     payload_hash |-> payload_hash, canonical_request |-> canonical_request,
                     algorithm |-> algorithm, credential_scope |-> credential_scope,
                     string_to_sign |-> string_to_sign, signing_key |-> signing_key.value,
                     signature |-> signature, authorization_header |-> authorization_header,
                     headers |-> headers])

----------------------------------------------------------------------------
(* json.dumps with the default ensure_ascii=True and separators (', ', ': ') *)

HexDigit(k) == IF k < 10 THEN 48 + k ELSE 87 + k

\* '\uXXXX' with four lowercase hex digits
EscapeU(n) ==
    Lit(<<92, 117, HexDigit(n \div 4096), HexDigit((n \div 256) % 16),
          HexDigit((n \div 16) % 16), HexDigit(n % 16)>>)

JsonEscape(cp) ==
    IF cp = 34 THEN Lit(<<92, 34>>)
    ELSE IF cp = 92 THEN Lit(<<92, 92>>)
    ELSE IF cp = 10 THEN Lit(<<92, 110>>)
    ELSE IF cp = 13 THEN Lit(<<92, 114>>)
    ELSE IF cp = 9 THEN Lit(<<92, 116>>)
    ELSE IF cp = 8 THEN Lit(<<92, 98>>)
    ELSE IF cp = 12 THEN Lit(<<92, 102>>)
    ELSE IF cp >= 32 /\ cp <= 126 THEN Lit(<<cp>>)
    ELSE IF cp < 65536 THEN EscapeU(cp)
    ELSE EscapeU(55296 + ((cp - 65536) \div 1024)) \o EscapeU(56320 + ((cp - 65536) % 1024))

RECURSIVE JsonEscapeAll(_)
JsonEscapeAll(s) == IF s = <<>> THEN <<>> ELSE JsonEscape(Head(s)[2]) \o JsonEscapeAll(Tail(s))

\* a str as '"..."', None as 'null'
JsonValue(v) ==
    IF IsNone(v) THEN Lit(<<110, 117, 108, 108>>)
    ELSE Lit(<<34>>) \o JsonEscapeAll(v) \o Lit(<<34>>)

----------------------------------------------------------------------------
(* scripts/paapi_get_item.py, __main__ *)

host_main_GI ==                                                    \* 'webservices.amazon.co.jp'
    Lit(<<119, 101, 98, 115, 101, 114, 118, 105, 99, 101, 115, 46, 97, 109, 97, 122, 111, 110, 46,
          99, 111, 46, 106, 112>>)

region_main_GI == Lit(<<117, 115, 45, 119, 101, 115, 116, 45, 50>>)   \* 'us-west-2'

service_main_GI ==                                                 \* 'ProductAdvertisingAPI'
    Lit(<<80, 114, 111, 100, 117, 99, 116, 65, 100, 118, 101, 114, 116, 105, 115, 105, 110, 103,
          65, 80, 73>>)

\* json.dumps(payload_dict)
payload_GI(arg, partner_tag) ==
    \* '{"ItemIds": ['
    Lit(<<123, 34, 73, 116, 101, 109, 73, 100, 115, 34, 58, 32, 91>>)
    \o JsonValue(arg)
    \* '], "PartnerTag": '
    \o Lit(<<93, 44, 32, 34, 80, 97, 114, 116, 110, 101, 114, 84, 97, 103, 34, 58, 32>>)
    \o JsonValue(partner_tag)
    \* ', "PartnerType": "Associates", "Resources": ["Images.Primary.Large", "ItemInfo.Title", "ItemInfo.Features", "ItemInfo.ByLineInfo", "ItemInfo.ProductInfo", "ItemInfo.TechnicalInfo", "ItemInfo.ManufactureInfo", "Offers.Listings.Price"]}'
    \o Lit(<<44, 32, 34, 80, 97, 114, 116, 110, 101, 114, 84, 121, 112, 101, 34, 58, 32, 34, 65, 115,
          115, 111, 99, 105, 97, 116, 101, 115, 34, 44, 32, 34, 82, 101, 115, 111, 117, 114, 99,
          101, 115, 34, 58, 32, 91, 34, 73, 109, 97, 103, 101, 115, 46, 80, 114, 105, 109, 97, 114,
          121, 46, 76, 97, 114, 103, 101, 34, 44, 32, 34, 73, 116, 101, 109, 73, 110, 102, 111, 46,
          84, 105, 116, 108, 101, 34, 44, 32, 34, 73, 116, 101, 109, 73, 110, 102, 111, 46, 70,
          101, 97, 116, 117, 114, 101, 115, 34, 44, 32, 34, 73, 116, 101, 109, 73, 110, 102, 111,
          46, 66, 121, 76, 105, 110, 101, 73, 110, 102, 111, 34, 44, 32, 34, 73, 116, 101, 109, 73,
          110, 102, 111, 46, 80, 114, 111, 100, 117, 99, 116, 73, 110, 102, 111, 34, 44, 32, 34,
          73, 116, 101, 109, 73, 110, 102, 111, 46, 84, 101, 99, 104, 110, 105, 99, 97, 108, 73,
          110, 102, 111, 34, 44, 32, 34, 73, 116, 101, 109, 73, 110, 102, 111, 46, 77, 97, 110,
          117, 102, 97, 99, 116, 117, 114, 101, 73, 110, 102, 111, 34, 44, 32, 34, 79, 102, 102,
          101, 114, 115, 46, 76, 105, 115, 116, 105, 110, 103, 115, 46, 80, 114, 105, 99, 101, 34,
          93, 125>>)

\* 'https://' + host + '/paapi5/getitems'
endpoint_GI(host) ==
    Lit(<<104, 116, 116, 112, 115, 58, 47, 47>>) \o host
    \o Lit(<<47, 112, 97, 97, 112, 105, 53, 47, 103, 101, 116, 105, 116, 101, 109, 115>>)

----------------------------------------------------------------------------
(* scripts/paapi_search_items.py, __main__ *)

host_main_SI ==                                                    \* 'webservices.amazon.co.jp'
    Lit(<<119, 101, 98, 115, 101, 114, 118, 105, 99, 101, 115, 46, 97, 109, 97, 122, 111, 110, 46,
          99, 111, 46, 106, 112>>)

region_main_SI == Lit(<<117, 115, 45, 119, 101, 115, 116, 45, 50>>)   \* 'us-west-2'

service_main_SI ==                                                 \* 'ProductAdvertisingAPI'
    Lit(<<80, 114, 111, 100, 117, 99, 116, 65, 100, 118, 101, 114, 116, 105, 115, 105, 110, 103,
          65, 80, 73>>)

\* json.dumps(payload_dict)
payload_SI(arg, partner_tag) ==
    \* '{"Keywords": '
    Lit(<<123, 34, 75, 101, 121, 119, 111, 114, 100, 115, 34, 58, 32>>)
    \o JsonValue(arg)
    \* ', "PartnerTag": '
    \o Lit(<<44, 32, 34, 80, 97, 114, 116, 110, 101, 114, 84, 97, 103, 34, 58, 32>>)
    \o JsonValue(partner_tag)
    \* ', "PartnerType": "Associates", "SearchIndex": "HomeAndKitchen", "Resources": ["ItemInfo.Title", "ItemInfo.ByLineInfo", "BrowseNodeInfo.BrowseNodes", "Offers.Listings.Price"]}'
    \o Lit(<<44, 32, 34, 80, 97, 114, 116, 110, 101, 114, 84, 121, 112, 101, 34, 58, 32, 34, 65, 115,
          115, 111, 99, 105, 97, 116, 101, 115, 34, 44, 32, 34, 83, 101, 97, 114, 99, 104, 73, 110,
          100, 101, 120, 34, 58, 32, 34, 72, 111, 109, 101, 65, 110, 100, 75, 105, 116, 99, 104,
          101, 110, 34, 44, 32, 34, 82, 101, 115, 111, 117, 114, 99, 101, 115, 34, 58, 32, 91, 34,
          73, 116, 101, 109, 73, 110, 102, 111, 46, 84, 105, 116, 108, 101, 34, 44, 32, 34, 73,
          116, 101, 109, 73, 110, 102, 111, 46, 66, 121, 76, 105, 110, 101, 73, 110, 102, 111, 34,
          44, 32, 34, 66, 114, 111, 119, 115, 101, 78, 111, 100, 101, 73, 110, 102, 111, 46, 66,
          114, 111, 119, 115, 101, 78, 111, 100, 101, 115, 34, 44, 32, 34, 79, 102, 102, 101, 114,
          115, 46, 76, 105, 115, 116, 105, 110, 103, 115, 46, 80, 114, 105, 99, 101, 34, 93, 125>>)

\* 'https://' + host + '/paapi5/getitems', the path of the script it was copied from
endpoint_SI_GetItems(host) ==
    Lit(<<104, 116, 116, 112, 115, 58, 47, 47>>) \o host
    \o Lit(<<47, 112, 97, 97, 112, 105, 53, 47, 103, 101, 116, 105, 116, 101, 109, 115>>)

\* 'https://' + host + '/paapi5/searchitems'
endpoint_SI(host) ==
    Lit(<<104, 116, 116, 112, 115, 58, 47, 47>>) \o host
    \o Lit(<<47, 112, 97, 97, 112, 105, 53, 47, 115, 101, 97, 114, 99, 104, 105, 116, 101, 109, 115>>)

----------------------------------------------------------------------------
(* scripts/investigate_browsenodes.py, __main__ *)

host_main_BN ==                                                    \* 'webservices.amazon.co.jp'
    Lit(<<119, 101, 98, 115, 101, 114, 118, 105, 99, 101, 115, 46, 97, 109, 97, 122, 111, 110, 46,
          99, 111, 46, 106, 112>>)

region_main_BN == Lit(<<117, 115, 45, 119, 101, 115, 116, 45, 50>>)   \* 'us-west-2'

service_main_BN ==                                                 \* 'ProductAdvertisingAPI'
    Lit(<<80, 114, 111, 100, 117, 99, 116, 65, 100, 118, 101, 114, 116, 105, 115, 105, 110, 103,
          65, 80, 73>>)

\* json.dumps(payload_dict)
payload_BN(arg, partner_tag) ==
    \* '{"ItemIds": ['
    Lit(<<123, 34, 73, 116, 101, 109, 73, 100, 115, 34, 58, 32, 91>>)
    \o JsonValue(arg)
    \* '], "PartnerTag": '
    \o Lit(<<93, 44, 32, 34, 80, 97, 114, 116, 110, 101, 114, 84, 97, 103, 34, 58, 32>>)
    \o JsonValue(partner_tag)
    \* ', "PartnerType": "Associates", "Resources": ["ItemInfo.Title", "BrowseNodeInfo.BrowseNodes", "BrowseNodeInfo.BrowseNodes.Ancestor", "BrowseNodeInfo.BrowseNodes.SalesRank"]}'
    \o Lit(<<44, 32, 34, 80, 97, 114, 116, 110, 101, 114, 84, 121, 112, 101, 34, 58, 32, 34, 65, 115,
          115, 111, 99, 105, 97, 116, 101, 115, 34, 44, 32, 34, 82, 101, 115, 111, 117, 114, 99,
          101, 115, 34, 58, 32, 91, 34, 73, 116, 101, 109, 73, 110, 102, 111, 46, 84, 105, 116,
          108, 101, 34, 44, 32, 34, 66, 114, 111, 119, 115, 101, 78, 111, 100, 101, 73, 110, 102,
          111, 46, 66, 114, 111, 119, 115, 101, 78, 111, 100, 101, 115, 34, 44, 32, 34, 66, 114,
          111, 119, 115, 101, 78, 111, 100, 101, 73, 110, 102, 111, 46, 66, 114, 111, 119, 115,
          101, 78, 111, 100, 101, 115, 46, 65, 110, 99, 101, 115, 116, 111, 114, 34, 44, 32, 34,
          66, 114, 111, 119, 115, 101, 78, 111, 100, 101, 73, 110, 102, 111, 46, 66, 114, 111, 119,
          115, 101, 78, 111, 100, 101, 115, 46, 83, 97, 108, 101, 115, 82, 97, 110, 107, 34, 93,
          125>>)

\* 'https://' + host + '/paapi5/getitems'
endpoint_BN(host) ==
    Lit(<<104, 116, 116, 112, 115, 58, 47, 47>>) \o host
    \o Lit(<<47, 112, 97, 97, 112, 105, 53, 47, 103, 101, 116, 105, 116, 101, 109, 115>>)

----------------------------------------------------------------------------
(* the copy of each function that a script defines *)

Scripts == {"GI", "SI", "BN"}

GetSignatureKey(s, key, date_stamp, region_name, service_name) ==
    CASE s = "GI" -> get_signature_key_GI(key, date_stamp, region_name, service_name)
      [] s = "SI" -> get_signature_key_SI(key, date_stamp, region_name, service_name)
      [] s = "BN" -> get_signature_key_BN(key, date_stamp, region_name, service_name)

GetSignedHeaders(s, a, clock) ==
    CASE s = "GI" -> get_signed_headers_GI(a.access_key, a.secret_key, a.region, a.service,
                                           a.host, a.payload, clock)
      [] s = "SI" -> get_signed_headers_SI(a.access_key, a.secret_key, a.region, a.service,
                                           a.host, a.payload, clock)
      [] s = "BN" -> get_signed_headers_BN(a.access_key, a.secret_key, a.region, a.service,
                                           a.host, a.payload, clock)

HostOf(s) == CASE s = "GI" -> host_main_GI [] s = "SI" -> host_main_SI [] s = "BN" -> host_main_BN

RegionOf(s) ==
    CASE s = "GI" -> region_main_GI [] s = "SI" -> region_main_SI [] s = "BN" -> region_main_BN

ServiceOf(s) ==
    CASE s = "GI" -> service_main_GI [] s = "SI" -> service_main_SI [] s = "BN" -> service_main_BN

PayloadOf(s, arg, partner_tag) ==
    CASE s = "GI" -> payload_GI(arg, partner_tag)
      [] s = "SI" -> payload_SI(arg, partner_tag)
      [] s = "BN" -> payload_BN(arg, partner_tag)

EndpointOf(s, host) ==
    CASE s = "GI" -> endpoint_GI(host) [] s = "SI" -> endpoint_SI(host) [] s = "BN" -> endpoint_BN(host)

----------------------------------------------------------------------------
(* inputs *)

\* 'a', '\n' and the lone surrogate U+DC80 (os.environ decodes an undecodable byte 0x80
\* to it)
Alphabet == {97, 10, 56448}

RECURSIVE StrsOfLen(_)
StrsOfLen(n) ==
    IF n = 0 THEN {<<>>}
    ELSE {Append(s, <<"c", c>>) : s \in StrsOfLen(n - 1), c \in Alphabet}

Strs == UNION {StrsOfLen(n) : n \in 0..MaxLen}

\* a credential argument: a str or None
Credentials == Strs \cup {None}

\* what os.environ.get gives: a str, or None when the variable is not set
EnvValues == StrsOfLen(0) \cup StrsOfLen(1) \cup {None}

\* the command line and the partner tag of a run
RunInputs ==
    { [argv |-> Lit(<<66, 48>>), tag |-> None],                 \* 'B0'
      [argv |-> Lit(<<233, 34, 10>>), tag |-> Lit(<<116>>)] }   \* U+00E9 '"' '\n', 't'

NoCall == [script |-> "", args |-> <<>>, clock |-> <<>>, result |-> Raise("NoCall")]

Invocation(s, a, clock) ==
    [script |-> s, args |-> a, clock |-> clock, result |-> GetSignedHeaders(s, a, clock)]

\* the successive readings of the clock by a call that starts now: the second and later
\* readings are e seconds later
ClockOf(n, e) == <<n, n + e>>

----------------------------------------------------------------------------
(* a run of a script *)

Init ==
    /\ script \in Scripts
    /\ now = 0
    /\ pc = "start"
    /\ \E a \in EnvValues, k \in EnvValues, r \in RunInputs :
          /\ env = [AMAZON_ACCESS_KEY |-> a, AMAZON_SECRET_KEY |-> k, AMAZON_PARTNER_TAG |-> r.tag]
          /\ argv = r.argv
    /\ payload_main = <<>>
    /\ call = NoCall
    /\ again = NoCall
    /\ keycall = NoCall
    /\ sent = <<>>
    /\ files = {}

\* parse_args, os.environ.get, payload = json.dumps(payload_dict)
Prepare ==
    /\ pc = "start"
    /\ payload_main' = PayloadOf(script, argv, env.AMAZON_PARTNER_TAG)
    /\ pc' = "ready"
    /\ UNCHANGED <<script, now, env, argv, call, again, keycall, sent, files>>

\* the call moved inside the try block: an exception is handled as a failed request
Sign_InTry ==
    /\ pc = "ready"
    /\ \E e \in 0..MaxElapsed :
          LET a == [access_key |-> env.AMAZON_ACCESS_KEY, secret_key |-> env.AMAZON_SECRET_KEY,
                    region |-> RegionOf(script), service |-> ServiceOf(script),
                    host |-> HostOf(script), payload |-> payload_main]
              c == Invocation(script, a, ClockOf(now, e))
          IN  /\ call' = c
              /\ pc' = IF Raised(c.result) THEN "failed" ELSE "signed"
    /\ UNCHANGED <<script, now, env, argv, payload_main, again, keycall, sent, files>>

\* headers = get_signed_headers(access_key, secret_key, region, service, host, payload);
\* the call is outside the try block, so an exception ends the run
Sign ==
    /\ pc = "ready"
    /\ \E e \in 0..MaxElapsed :
          LET a == [access_key |-> env.AMAZON_ACCESS_KEY, secret_key |-> env.AMAZON_SECRET_KEY,
                    region |-> RegionOf(script), service |-> ServiceOf(script),
                    host |-> HostOf(script), payload |-> payload_main]
              c == Invocation(script, a, ClockOf(now, e))
          IN  /\ call' = c
              /\ pc' = IF Raised(c.result) THEN "aborted" ELSE "signed"
    /\ UNCHANGED <<script, now, env, argv, payload_main, again, keycall, sent, files>>

\* r = requests.post(endpoint, data=payload, headers=headers): the request is transmitted,
\* or requests raises before anything is transmitted (caught by `except Exception`)
Post ==
    /\ pc = "signed"
    /\ \/ /\ sent' = Append(sent, [method |-> "POST",
                                   url |-> EndpointOf(script, HostOf(script)),
                                   data |-> payload_main,
                                   headers |-> call.result.value.headers])
          /\ pc' = "posted"
       \/ /\ pc' = "failed"
          /\ UNCHANGED sent
    /\ UNCHANGED <<script, now, env, argv, payload_main, call, again, keycall, files>>

\* the rest of the try block: the response is read and, in paapi_get_item.py and
\* paapi_search_items.py, written to the output file
Respond ==
    /\ pc = "posted"
    /\ \E resp \in {"error", "not_json", "items", "bad_items", "no_items"} :
          /\ pc' = IF resp \in {"error", "not_json"} \/ (resp = "bad_items" /\ script # "SI")
                   THEN "failed" ELSE "done"
          /\ files' =
                CASE script = "GI" -> IF resp = "items" THEN files \cup {"args.output"} ELSE files
                  [] script = "SI" -> IF resp \in {"items", "bad_items", "no_items"}
                                      THEN files \cup {"search_results.json"} ELSE files
                  [] script = "BN" -> files
    /\ UNCHANGED <<script, now, env, argv, payload_main, call, again, keycall, sent>>

\* the wall clock advances
Tick ==
    /\ now < MaxTick
    /\ now' = now + 1
    /\ UNCHANGED <<script, pc, env, argv, payload_main, call, again, keycall, sent, files>>

Next == Prepare \/ Sign \/ Post \/ Respond \/ Tick

Spec == Init /\ [][Next]_vars

----------------------------------------------------------------------------
(* direct calls of the functions of one script, with arbitrary arguments *)

DefaultArgs(s) ==
    [access_key |-> Lit(<<65, 75>>), secret_key |-> Lit(<<115, 107>>),       \* 'AK', 'sk'
     region |-> RegionOf(s), service |-> ServiceOf(s), host |-> HostOf(s),
     payload |-> Lit(<<123, 34, 107, 34, 58, 32, 49, 125>>)]                 \* '{"k": 1}'

InitCall ==
    /\ script \in Scripts
    /\ now \in 0..MaxTick
    /\ pc = "import"
    /\ env = [AMAZON_ACCESS_KEY |-> None, AMAZON_SECRET_KEY |-> None, AMAZON_PARTNER_TAG |-> None]
    /\ argv = <<>>
    /\ payload_main = <<>>
    /\ call = NoCall
    /\ again = NoCall
    /\ keycall = NoCall
    /\ sent = <<>>
    /\ files = {}

\* get_signed_headers with any access key, or any secret key
CallCredentials ==
    /\ call.script = "" /\ keycall.script = ""
    /\ \E v \in Credentials, f \in {"access_key", "secret_key"}, e \in 0..MaxElapsed :
          call' = Invocation(script, [DefaultArgs(script) EXCEPT ![f] = v], ClockOf(now, e))
    /\ again' = NoCall
    /\ UNCHANGED <<script, now, pc, env, argv, payload_main, keycall, sent, files>>

\* get_signed_headers with any region, or any service
CallScope ==
    /\ call.script = "" /\ keycall.script = ""
    /\ \E v \in Strs, f \in {"region", "service"}, e \in 0..MaxElapsed :
          call' = Invocation(script, [DefaultArgs(script) EXCEPT ![f] = v], ClockOf(now, e))
    /\ again' = NoCall
    /\ UNCHANGED <<script, now, pc, env, argv, payload_main, keycall, sent, files>>

\* get_signed_headers with any host, or any payload (U+00E9 takes two bytes in UTF-8)
CallRequest ==
    /\ call.script = "" /\ keycall.script = ""
    /\ \E v \in Strs \cup {Lit(<<233>>)}, f \in {"host", "payload"}, e \in 0..MaxElapsed :
          call' = Invocation(script, [DefaultArgs(script) EXCEPT ![f] = v], ClockOf(now, e))
    /\ again' = NoCall
    /\ UNCHANGED <<script, now, pc, env, argv, payload_main, keycall, sent, files>>

\* get_signed_headers once more with the arguments of the first call
CallAgain ==
    /\ call.script # ""
    /\ \E e \in 0..MaxElapsed : again' = Invocation(script, call.args, ClockOf(now, e))
    /\ UNCHANGED <<script, now, pc, env, argv, payload_main, call, keycall, sent, files>>

\* region and service names for a direct call of get_signature_key
ScopeSamples(s) ==
    { [region |-> RegionOf(s), service |-> ServiceOf(s)],
      [region |-> Lit(<<>>), service |-> Lit(<<233>>)],
      [region |-> Lit(<<56448>>), service |-> ServiceOf(s)],
      [region |-> RegionOf(s), service |-> Lit(<<56448>>)] }

\* date stamps for a direct call of get_signature_key: today's, an empty one, one that
\* cannot be encoded
DateSamples(n) == {StrftimeDate(UtcNow(n)), Lit(<<>>), Lit(<<56448>>)}

\* get_signature_key with any key
CallGetSignatureKey ==
    /\ call.script = "" /\ keycall.script = ""
    /\ \E k \in Credentials, d \in DateSamples(now), rs \in ScopeSamples(script) :
          LET r == rs.region
              s == rs.service
          IN
          keycall' = [script |-> script,
                      args |-> [key |-> k, date_stamp |-> d, region_name |-> r, service_name |-> s],
                      clock |-> <<>>,
                      result |-> GetSignatureKey(script, k, d, r, s)]
    /\ UNCHANGED <<script, now, pc, env, argv, payload_main, call, again, sent, files>>

NextCall == CallCredentials \/ CallScope \/ CallRequest \/ CallAgain \/ CallGetSignatureKey

SpecCall == InitCall /\ [][NextCall]_vars

----------------------------------------------------------------------------
(* properties *)

Returned(c) == c.script # "" /\ c.result.raise = ""

Failed(c) == c.script # "" /\ c.result.raise # ""

Calls == {c \in {call, again} : Returned(c)}

\* the key and the message of the HMAC whose raw digest is k
KeyOf(k) == k[1][2][2]

MsgOf(k) == k[1][2][3]

\* the fields of s between the separators sep
SepsOf(s, sep) == {i \in 1..Len(s) : s[i] = <<"c", sep>>}

NthSep(s, sep, k) ==
    IF k = 0 THEN 0
    ELSE IF k > Cardinality(SepsOf(s, sep)) THEN Len(s) + 1
    ELSE CHOOSE i \in SepsOf(s, sep) : Cardinality({j \in SepsOf(s, sep) : j < i}) = k - 1

Split(s, sep) ==
    [k \in 1..(Cardinality(SepsOf(s, sep)) + 1) |->
        SubSeq(s, NthSep(s, sep, k - 1) + 1, NthSep(s, sep, k) - 1)]

NoNewline(s) == SepsOf(s, 10) = {}

TextPOST == Lit(<<80, 79, 83, 84>>)

TextHostColon == Lit(<<104, 111, 115, 116, 58>>)

TextDateColon == Lit(<<120, 45, 97, 109, 122, 45, 100, 97, 116, 101, 58>>)

TextTargetColon == Lit(<<120, 45, 97, 109, 122, 45, 116, 97, 114, 103, 101, 116, 58>>)

TextSignedHeaders ==
    Lit(<<104, 111, 115, 116, 59, 120, 45, 97, 109, 122, 45, 100, 97, 116, 101, 59,
          120, 45, 97, 109, 122, 45, 116, 97, 114, 103, 101, 116>>)

TextAlgorithm == Lit(<<65, 87, 83, 52, 45, 72, 77, 65, 67, 45, 83, 72, 65, 50, 53, 54>>)

TextAWS4 == Lit(<<65, 87, 83, 52>>)

TextAws4Request == Lit(<<97, 119, 115, 52, 95, 114, 101, 113, 117, 101, 115, 116>>)

TextHttps == Lit(<<104, 116, 116, 112, 115, 58, 47, 47>>)

\* 'com.amazon.paapi5.v1.ProductAdvertisingAPIv1.'
TextTargetPrefix ==
    Lit(<<99, 111, 109, 46, 97, 109, 97, 122, 111, 110, 46, 112, 97, 97, 112, 105, 53, 46, 118,
          49, 46, 80, 114, 111, 100, 117, 99, 116, 65, 100, 118, 101, 114, 116, 105, 115, 105,
          110, 103, 65, 80, 73, 118, 49, 46>>)

\* the operation a script calls: GetItems, or SearchItems in paapi_search_items.py
OperationOf(s) ==
    IF s = "SI" THEN Lit(<<83, 101, 97, 114, 99, 104, 73, 116, 101, 109, 115>>)
    ELSE Lit(<<71, 101, 116, 73, 116, 101, 109, 115>>)

\* '/paapi5/getitems', or '/paapi5/searchitems' in paapi_search_items.py
UriOf(s) ==
    IF s = "SI" THEN Lit(<<47, 112, 97, 97, 112, 105, 53, 47, 115, 101, 97, 114, 99, 104, 105,
                           116, 101, 109, 115>>)
    ELSE Lit(<<47, 112, 97, 97, 112, 105, 53, 47, 103, 101, 116, 105, 116, 101, 109, 115>>)

\* C1: a call reads the clock once, and every time value of the call comes from that one
\* reading: the date stamp is the first 8 characters of amz_date, the credential scope starts
\* with it and it is the message of the first key-derivation step; amz_date is the value of the
\* canonical x-amz-date line, the second line of the string to sign and the x-amz-date header.
C1_OneInstant ==
    \A c \in Calls :
        LET v == c.result.value
            hostEnd == Len(TextHostColon) + Len(c.args.host) + 1
            dateLine == TextDateColon \o v.amz_date \o NL
        IN  /\ v.reads = 1
            /\ v.t = UtcNow(c.clock[1])
            /\ v.amz_date = StrftimeFull(v.t)
            /\ Len(v.amz_date) = 16
            /\ v.date_stamp = SubSeq(v.amz_date, 1, 8)
            /\ SubSeq(v.credential_scope, 1, 9) = v.date_stamp \o Lit(<<47>>)
            /\ MsgOf(KeyOf(KeyOf(KeyOf(v.signing_key)))) = Encode(v.date_stamp)
            /\ SubSeq(v.canonical_headers, hostEnd + 1, hostEnd + Len(dateLine)) = dateLine
            /\ SubSeq(v.string_to_sign, 1, Len(TextAlgorithm) + 18)
                  = TextAlgorithm \o NL \o v.amz_date \o NL
            /\ v.headers["x-amz-date"] = v.amz_date

\* a call whose later clock readings fall on the next day has returned
C1_Witness ==
    \E c \in Calls :
        StrftimeDate(UtcNow(c.clock[2])) # StrftimeDate(UtcNow(c.clock[1]))

\* C2: the canonical request is method, URI, empty query string, header block, signed-headers
\* list and payload hash joined with '\n', the header block being the three newline-terminated
\* lines host, x-amz-date, x-amz-target; an empty payload hashes to SHA-256 of no bytes.
C2_CanonicalRequest ==
    \A c \in Calls :
        LET v == c.result.value
            block == TextHostColon \o c.args.host \o NL
                     \o TextDateColon \o v.amz_date \o NL
                     \o TextTargetColon \o TextTargetPrefix \o OperationOf(c.script) \o NL
            hash == HexDigest(Sha256(Encode(c.args.payload)))
        IN  /\ v.canonical_request =
                  TextPOST \o NL \o UriOf(c.script) \o NL \o NL
                  \o block \o NL \o TextSignedHeaders \o NL \o hash
            /\ c.args.payload = <<>> =>
                  SubSeq(v.canonical_request, Len(v.canonical_request), Len(v.canonical_request))
                      = HexDigest(Sha256(<<>>))

\* a call with an empty payload, and one with a payload of more bytes than characters
C2_Witness ==
    /\ Returned(call)
    /\ call.args.payload = <<>> \/ Len(Encode(call.args.payload)) > Len(call.args.payload)

\* the SigV4 key derivation, written out
ChainOf(secret, date, region, service) ==
    Digest(HmacNew(
        Digest(HmacNew(
            Digest(HmacNew(
                Digest(HmacNew(Encode(TextAWS4 \o secret), Encode(date))),
                Encode(region))),
            Encode(service))),
        Encode(TextAws4Request)))

\* C4: get_signature_key returns the raw digest of four chained HMAC steps, each keyed by the
\* digest of the step before: date stamp under 'AWS4'+secret, region, service, 'aws4_request'.
C4_KeyChain ==
    /\ Returned(keycall) =>
          /\ keycall.result.value = ChainOf(keycall.args.key, keycall.args.date_stamp,
                                            keycall.args.region_name, keycall.args.service_name)
          /\ Len(keycall.result.value) = 1 /\ keycall.result.value[1][1] = "raw"
    /\ \A c \in Calls :
          c.result.value.signing_key =
              ChainOf(c.args.secret_key, c.result.value.date_stamp, c.args.region, c.args.service)

\* a direct call of get_signature_key has returned a key
C4_Witness ==
    /\ Returned(keycall)
    /\ keycall.args.date_stamp = <<>>
    /\ keycall.args.key # <<>>

\* C5: the authorization value is 'AWS4-HMAC-SHA256 Credential=' accessKey '/' scope
\* ', SignedHeaders=' signedHeaders ', Signature=' signature, with scope =
\* dateStamp/region/service/aws4_request, signature = hex HMAC(signing key, stringToSign) and
\* stringToSign = algorithm, timestamp, scope, hex SHA-256(canonical request) joined with '\n';
\* the region and service of the scope are those of the key derivation.
C5_Authorization ==
    \A c \in Calls :
        LET v == c.result.value
            scope == v.date_stamp \o Lit(<<47>>) \o c.args.region \o Lit(<<47>>)
                     \o c.args.service \o Lit(<<47>>) \o TextAws4Request
            sts == TextAlgorithm \o NL \o v.amz_date \o NL \o scope \o NL
                   \o HexDigest(Sha256(Encode(v.canonical_request)))
            sig == HexDigest(HmacNew(v.signing_key, Encode(sts)))
        IN  /\ v.headers["authorization"] =
                  TextAlgorithm \o Lit(<<32, 67, 114, 101, 100, 101, 110, 116, 105, 97, 108, 61>>)
                  \o c.args.access_key \o Lit(<<47>>) \o scope
                  \o Lit(<<44, 32, 83, 105, 103, 110, 101, 100, 72, 101, 97, 100, 101, 114, 115, 61>>)
                  \o TextSignedHeaders
                  \o Lit(<<44, 32, 83, 105, 103, 110, 97, 116, 117, 114, 101, 61>>) \o sig
            /\ v.string_to_sign = sts
            /\ v.credential_scope = scope
            /\ v.signature = sig
            /\ MsgOf(KeyOf(KeyOf(v.signing_key))) = Encode(c.args.region)
            /\ MsgOf(KeyOf(v.signing_key)) = Encode(c.args.service)

\* a call with a region or service other than the scripts' own has returned
C5_Witness ==
    /\ Returned(call)
    /\ call.args.region # RegionOf(call.script) \/ call.args.service # ServiceOf(call.script)

\* C6: two invocations with the same arguments at the same instant end the same way and, when
\* they return, return the same header map.
C6_Deterministic ==
    (again.script # "" /\ again.clock[1] = call.clock[1]) =>
        /\ again.args = call.args
        /\ again.result.raise = call.result.raise
        /\ Returned(call) => again.result.value.headers = call.result.value.headers

\* the call was repeated at the same instant, the clock moving on differently afterwards
C6_Witness ==
    /\ Returned(call) /\ Returned(again)
    /\ again.clock[1] = call.clock[1]
    /\ again.clock[2] # call.clock[2]

\* the three signed header names
HeaderNames ==
    << Lit(<<104, 111, 115, 116>>),                                         \* 'host'
       Lit(<<120, 45, 97, 109, 122, 45, 100, 97, 116, 101>>),               \* 'x-amz-date'
       Lit(<<120, 45, 97, 109, 122, 45, 116, 97, 114, 103, 101, 116>>) >>   \* 'x-amz-target'

\* C3: the signed-headers list is 'host;x-amz-date;x-amz-target', and the names on lines 1, 2
\* and 3 of the canonical header block are these three names in the same order, in each script.
C3_HeaderOrder ==
    \A c \in Calls :
        LET v == c.result.value
            lines == Split(v.canonical_headers, 10)
        IN  /\ v.signed_headers = TextSignedHeaders
            /\ Split(v.signed_headers, 59) = HeaderNames
            /\ Len(lines) = 4 /\ lines[4] = <<>>
            /\ \A i \in 1..3 : Split(lines[i], 58)[1] = Split(v.signed_headers, 59)[i]

\* each script has signed a request
C3_Witness == Returned(call) /\ pc = "signed"

\* what holds of a posted request in every state of a run
C7_Posted ==
    /\ Len(sent) <= 1
    /\ call.script # "" => call.args.payload = payload_main
    /\ \A i \in 1..Len(sent) :
          LET r == sent[i]
              v == call.result.value
          IN  /\ Returned(call)
              /\ r.method = "POST"
              /\ r.data = call.args.payload
              /\ v.payload_hash = HexDigest(Sha256(Encode(r.data)))
              /\ r.url = TextHttps \o call.args.host \o v.canonical_uri
              /\ SubSeq(v.canonical_request, 1, Len(TextPOST) + 1 + Len(v.canonical_uri) + 1)
                    = TextPOST \o NL \o SubSeq(r.url, Len(TextHttps) + Len(call.args.host) + 1,
                                               Len(r.url)) \o NL
              /\ r.headers = v.headers
              /\ v.canonical_headers =
                    TextHostColon \o r.headers["host"] \o NL
                    \o TextDateColon \o r.headers["x-amz-date"] \o NL
                    \o TextTargetColon \o r.headers["x-amz-target"] \o NL

\* C7: the request that is posted is the request that was signed: its body is the payload
\* that was built before signing and hashed, its URL path is the canonical URI, its host,
\* x-amz-date and x-amz-target headers are the values of the canonical header block; it is
\* posted after signing has returned, and at most once.
C7_SignedThenPosted ==
    /\ [](C7_Posted)
    /\ [][/\ pc # "start" => payload_main' = payload_main
          /\ sent' # sent => pc = "signed" /\ Returned(call) /\ call' = call]_vars

\* a run has posted its request and finished
C7_Witness == Len(sent) = 1 /\ pc = "done"

\* C8: the authorization value has no embedded newline, whatever strings are passed.
C8_NoNewline ==
    \A c \in Calls : NoNewline(c.result.value.headers["authorization"])

\* C9 (as claimed): signing fails exactly when the access key or the secret key is None; a
\* failure ends the run with no request sent and no file written.
C9_FailsOnlyOnNone ==
    call.script # "" =>
        /\ Failed(call) <=> (IsNone(call.args.access_key) \/ IsNone(call.args.secret_key))
        /\ Failed(call) => pc = "aborted" /\ sent = <<>> /\ files = {}

\* when signing fails in a run, and what the run has done then
C9_State ==
    call.script # "" =>
        /\ Failed(call) <=> \/ IsNone(call.args.access_key)
                            \/ IsNone(call.args.secret_key)
                            \/ ~Encodable(call.args.secret_key)
        /\ Failed(call) => pc = "aborted" /\ sent = <<>> /\ files = {}

\* C9 (amended): signing fails exactly when the access key or the secret key is None or the
\* secret key cannot be encoded as UTF-8; a failure ends the run at once: it is not handled by
\* the request error handler, the call is not repeated, no request is sent, no file written.
C9_HardFailure ==
    /\ [](C9_State)
    /\ [][pc = "aborted" => pc' = pc /\ call' = call /\ sent' = sent /\ files' = files]_vars

\* a run was aborted by the encoding error of a secret key that is a string, and the clock
\* has moved on since
C9_Witness ==
    /\ pc = "aborted"
    /\ call.result.raise = "UnicodeEncodeError"
    /\ now > call.clock[1]

\* the locals si of the paapi_search_items.py copy are the locals gi of the paapi_get_item.py
\* copy but for the URI, the operation name and what is computed from them
SameBut(si, gi) ==
    LET tgt == TextTargetPrefix \o OperationOf("SI") \o NL
        cut(s) == SubSeq(s, 1, Len(s) - Len(TextTargetPrefix) - Len(OperationOf("SI")) - 1)
        cutGI == SubSeq(gi.canonical_headers, 1,
                        Len(gi.canonical_headers) - Len(TextTargetPrefix) - Len(OperationOf("GI")) - 1)
    IN  /\ \A f \in {"reads", "t", "amz_date", "date_stamp", "method", "canonical_querystring",
                     "signed_headers", "payload_hash", "algorithm", "credential_scope",
                     "signing_key"} : si[f] = gi[f]
        /\ si.canonical_uri = UriOf("SI")
        /\ si.canonical_headers = cutGI \o tgt
        /\ si.headers["x-amz-target"] \o NL = tgt
        /\ si.canonical_request =
              canonical_request_GI(gi.method, si.canonical_uri, gi.canonical_querystring,
                                   si.canonical_headers, gi.signed_headers, gi.payload_hash)
        /\ si.string_to_sign =
              string_to_sign_GI(gi.algorithm, gi.amz_date, gi.credential_scope, si.canonical_request)
        /\ si.signature = signature_GI(gi.signing_key, si.string_to_sign)
        /\ si.authorization_header =
              authorization_header_GI(gi.algorithm, call.args.access_key, gi.credential_scope,
                                      gi.signed_headers, si.signature)
        /\ si.headers = [headers_GI(call.args.host, gi.amz_date, si.authorization_header)
                            EXCEPT !["x-amz-target"] = TextTargetPrefix \o OperationOf("SI")]

\* C10: for the same arguments and instant the three copies of get_signature_key agree, the
\* copies of get_signed_headers in paapi_get_item.py and investigate_browsenodes.py agree, and
\* the copy in paapi_search_items.py differs from them only through the canonical URI and the
\* operation name of x-amz-target, which is the same in its header block and its header map.
C10_CopiesAgree ==
    /\ keycall.script # "" =>
          LET a == keycall.args
              gi == get_signature_key_GI(a.key, a.date_stamp, a.region_name, a.service_name)
              si == get_signature_key_SI(a.key, a.date_stamp, a.region_name, a.service_name)
              bn == get_signature_key_BN(a.key, a.date_stamp, a.region_name, a.service_name)
          IN  /\ gi.raise = si.raise /\ gi.raise = bn.raise
              /\ gi.raise = "" => gi.value = si.value /\ gi.value = bn.value
    /\ call.script # "" =>
          LET gi == GetSignedHeaders("GI", call.args, call.clock)
              si == GetSignedHeaders("SI", call.args, call.clock)
              bn == GetSignedHeaders("BN", call.args, call.clock)
          IN  /\ gi.raise = bn.raise /\ gi.raise = si.raise
              /\ gi.raise = "" =>
                    /\ gi.value = bn.value
                    /\ SameBut(si.value, gi.value)
                    /\ si.value.headers # gi.value.headers

\* a call with a host of the caller's own has returned
C10_Witness == Returned(call) /\ call.args.host # HostOf(call.script)

====
